---------------------------- MODULE Spec2Model ----------------------------
(***************************************************************************)
(* ESP32 Bluetooth speaker firmware (src/src/main.cpp): the application    *)
(* state, the polled input handlers, the Bluetooth callbacks, the display  *)
(* renderer and the main cycle, as a state machine.                        *)
(*                                                                         *)
(* Texts (Arduino String values) are sequences of one-character strings,   *)
(* indexed from 0 by the helpers below as the String class indexes them.   *)
(***************************************************************************)
EXTENDS Integers, Sequences, FiniteSets, TLC

(***************************************************************************)
(* String literals of the source.                                          *)
(***************************************************************************)
NoTrack == <<"N","o"," ","T","r","a","c","k">>
UnknownArtist == <<"U","n","k","n","o","w","n"," ","A","r","t","i","s","t">>
NotConnected == <<"N","o","t"," ","C","o","n","n","e","c","t","e","d">>
PhoneConnected == <<"P","h","o","n","e"," ","C","o","n","n","e","c","t","e","d">>
FromPhone == <<"F","r","o","m"," ","P","h","o","n","e">>
PlayingMusic == <<"P","l","a","y","i","n","g"," ","M","u","s","i","c">>
Loading == <<"L","o","a","d","i","n","g",".",".",".">>
NoArtistInfo == <<"N","o"," ","a","r","t","i","s","t"," ","i","n","f","o">>
Ellipsis == <<".",".",".">>
Dash == <<" ","-"," ">>
WaitingForDevice == <<"W","a","i","t","i","n","g"," ","f","o","r"," ","d","e","v","i","c","e",".",".",".">>
ReadyLine1 == <<"R","e","a","d","y"," ","-"," ","P","r","e","s","s"," ","V","o","l"," ","k","n","o","b">>
ReadyLine2 == <<"t","o"," ","P","l","a","y","/","P","a","u","s","e">>
PairLine1 == <<"P","a","i","r"," ","y","o","u","r"," ","d","e","v","i","c","e">>
PairLine2 == <<"N","a","m","e",":"," ","E","S","P","3","2","-","S","p","e","a","k","e","r">>
BootLine1 == <<"E","S","P","3","2"," ","B","T"," ","S","p","e","a","k","e","r">>
BootLine2 == <<"I","n","i","t","i","a","l","i","z","i","n","g",".",".",".">>
P1 == <<"(","O","f","f","i","c","i","a","l"," ","V","i","d","e","o",")">>
P2 == <<"(","O","f","f","i","c","i","a","l"," ","M","u","s","i","c"," ","V","i","d","e","o",")">>
P3 == <<"(","O","f","f","i","c","i","a","l"," ","A","u","d","i","o",")">>
P4 == <<"(","L","y","r","i","c"," ","V","i","d","e","o",")">>
P5 == <<"(","L","y","r","i","c","s",")">>
P6 == <<"[","O","f","f","i","c","i","a","l"," ","V","i","d","e","o","]">>
P7 == <<"[","O","f","f","i","c","i","a","l"," ","M","u","s","i","c"," ","V","i","d","e","o","]">>
P8 == <<"[","O","f","f","i","c","i","a","l"," ","A","u","d","i","o","]">>
P9 == <<"[","L","y","r","i","c"," ","V","i","d","e","o","]">>
P10 == <<"[","L","y","r","i","c","s","]">>
VEVO == <<"V","E","V","O">>
Records == <<"R","e","c","o","r","d","s">>
Music == <<"M","u","s","i","c">>
Topic == <<" ","-"," ","T","o","p","i","c">>
ScenTitle == <<"S","o","n","g"," ","A"," ","-"," ","T","i","t","l","e"," ","(","L","y","r","i","c","s",")">>
ScenArtist == <<"B","a","n","d"," ","V","E","V","O">>
Band == <<"B","a","n","d">>
Title == <<"T","i","t","l","e">>
Song == <<"S","o","n","g">>
ExTitle == <<"A","r","t","i","s","t"," ","-"," ","S","o","n","g"," ","(","O","f","f","i","c","i","a","l"," ","V","i","d","e","o",")">>
ExArtist == <<"S","o","m","e","B","a","n","d"," ","-"," ","T","o","p","i","c">>
SomeBand == <<"S","o","m","e","B","a","n","d">>
ExWrap1 == <<"T","h","i","s"," ","i","s"," ","a"," ","l","o","n","g"," ","a","r","t","i","s","t"," ","n","a","m","e"," ","h","e","r","e">>
ExWrap2 == <<"N","o","S","p","a","c","e","s","A","t","A","l","l","I","n","T","h","i","s","L","o","n","g","T","e","x","t","S","t","r","i","n","g">>
TokA == <<"A">>
Space == <<" ">>
ExTwoDash == <<"C","h"," ","-"," ","A","r","t"," ","-"," ","S","o","n","g"," ","[","L","y","r","i","c","s","]">>
ExLeadDash == <<" ","-"," ","S","o","n","g">>
ExLeadTwo == <<" ","-"," ","A"," ","-"," ","B">>
ExTailDash == <<"S","o","n","g"," ","-"," ">>
ExJoinTitle == <<"(","L","y","r","(","L","y","r","i","c","s",")","i","c","s",")">>
ExJoinArtist == <<"V","E","M","u","s","i","c","V","O">>
ExJoinTopic == <<"A"," ","-"," ","T","o","p"," ","-"," ","T","o","p","i","c","i","c">>
ExTwice == <<"V","E","V","O"," ","B","a","n","d"," ","V","E","V","O">>
ExOrder == <<"(","O","f","f","i","c","i","a","l"," ","(","L","y","r","i","c","s",")","V","i","d","e","o",")">>

(***************************************************************************)
(* Arduino String operations used by the source.                           *)
(***************************************************************************)
Empty == <<>>

isspace(c) == c \in {" ", "\t", "\n", "\r"}

\* s.charAt(i), 0-based; the String class returns 0 outside the text.
charAt(s, i) == IF i >= 0 /\ i < Len(s) THEN s[i + 1] ELSE "\\0"

\* TRUE iff find occurs in s at 0-based index i.
occursAt(s, find, i) ==
    /\ i >= 0
    /\ i + Len(find) <= Len(s)
    /\ \A k \in 1..Len(find) : s[i + k] = find[k]

\* strstr(s + from, find) as an index into s, -1 when there is none.
strstr(s, find, from) ==
    LET hits == {i \in from..(Len(s) - Len(find)) : occursAt(s, find, i)}
    IN  IF hits = {} THEN -1 ELSE CHOOSE i \in hits : \A j \in hits : i <= j

\* s.indexOf(find): index of the first occurrence, -1 when there is none.
indexOf(s, find) == IF 0 >= Len(s) THEN -1 ELSE strstr(s, find, 0)

\* s.lastIndexOf(find): index of the last occurrence, -1 when there is none.
lastIndexOf(s, find) ==
    LET hits == {i \in 0..(Len(s) - Len(find)) : occursAt(s, find, i)}
    IN  IF Len(find) = 0 \/ Len(s) = 0 \/ Len(find) > Len(s) \/ hits = {}
        THEN -1
        ELSE CHOOSE i \in hits : \A j \in hits : j <= i

\* s.substring(left, right): the characters at indices left..right-1.
substring(s, left, right) ==
    LET l  == IF left > right THEN right ELSE left
        r0 == IF left > right THEN left ELSE right
        r  == IF r0 > Len(s) THEN Len(s) ELSE r0
    IN  IF l >= Len(s) THEN Empty ELSE SubSeq(s, l + 1, r)

\* s.substring(left): from index left to the end.
substringFrom(s, left) == substring(s, left, Len(s))

\* The scan loop of String::replace: copy up to each occurrence found from
\* readFrom on, put repl in its place, resume after the occurrence.
RECURSIVE replaceScan(_, _, _, _, _)
replaceScan(s, find, repl, readFrom, out) ==
    LET foundAt == strstr(s, find, readFrom)
    IN  IF foundAt = -1
        THEN out \o SubSeq(s, readFrom + 1, Len(s))
        ELSE replaceScan(s, find, repl, foundAt + Len(find),
                         out \o SubSeq(s, readFrom + 1, foundAt) \o repl)

\* s.replace(find, repl): every occurrence, one left-to-right pass.
replace(s, find, repl) ==
    IF Len(s) = 0 \/ Len(find) = 0 THEN s ELSE replaceScan(s, find, repl, 0, Empty)

RECURSIVE trimLeft(_)
trimLeft(s) == IF s # Empty /\ isspace(Head(s)) THEN trimLeft(Tail(s)) ELSE s

RECURSIVE trimRight(_)
trimRight(s) ==
    IF s # Empty /\ isspace(s[Len(s)]) THEN trimRight(SubSeq(s, 1, Len(s) - 1)) ELSE s

\* s.trim(): leading and trailing whitespace removed.
trim(s) == trimRight(trimLeft(s))

(***************************************************************************)
(* avrc_metadata_callback: the clean-up of title and artist.               *)
(***************************************************************************)
\* The ten decorative patterns, in the order the source removes them.
TitlePatterns == <<P1, P2, P3, P4, P5, P6, P7, P8, P9, P10>>

\* The four artist patterns, in the order the source removes them.
ArtistPatterns == <<VEVO, Records, Music, Topic>>

\* s.replace(p, "") for each p of pats in turn.
RECURSIVE replaceEach(_, _)
replaceEach(s, pats) ==
    IF pats = <<>> THEN s ELSE replaceEach(replace(s, Head(pats), Empty), Tail(pats))

\* Lines 448-454: keep the part after the last " - ".
keepAfterDash(t) ==
    IF indexOf(t, Dash) > 0
    THEN LET dashPos == lastIndexOf(t, Dash)
         IN  IF dashPos > 0 /\ dashPos < Len(t) - 3
             THEN substringFrom(t, dashPos + 3)
             ELSE t
    ELSE t

\* A plausible slip: the title keeps its decorations.
cleanTitleNoStrip(metadata) == trim(keepAfterDash(metadata))

\* case ESP_AVRC_MD_ATTR_TITLE: the value stored in trackTitle.
cleanTitle(metadata) == trim(replaceEach(keepAfterDash(metadata), TitlePatterns))

\* A plausible slip: " - Topic" is not removed.
cleanArtistNoTopic(metadata) == trim(replaceEach(metadata, <<VEVO, Records, Music>>))

\* case ESP_AVRC_MD_ATTR_ARTIST: the value stored in artist.
cleanArtist(metadata) == trim(replaceEach(metadata, ArtistPatterns))

(***************************************************************************)
(* updateDisplay: the texts the renderer prints.                           *)
(***************************************************************************)
maxCharsPerLine == 21

\* The for loop of lines 236-241 / 276-281 from index i down: the index of
\* the first space found, maxChars when the window holds none.
RECURSIVE findBreak(_, _, _)
findBreak(text, maxChars, i) ==
    IF i < maxChars - 5 THEN maxChars
    ELSE IF i < Len(text) /\ charAt(text, i) = " " THEN i
    ELSE findBreak(text, maxChars, i - 1)

\* The indices handed to charAt by that loop.
RECURSIVE charAtReads(_, _, _)
charAtReads(text, maxChars, i) ==
    IF i < maxChars - 5 THEN {}
    ELSE IF i < Len(text)
         THEN IF charAt(text, i) = " " THEN {i}
              ELSE {i} \cup charAtReads(text, maxChars, i - 1)
         ELSE charAtReads(text, maxChars, i - 1)

\* A plausible slip: the scan stops one index early (i > maxChars - 5).
wordWrapShortScan(text, maxChars) ==
    IF Len(text) > maxChars
    THEN LET hits == {i \in (maxChars - 4)..maxChars : charAt(text, i) = " "}
             breakPoint == IF hits = {} THEN maxChars
                           ELSE CHOOSE i \in hits : \A j \in hits : j <= i
             rest  == trim(substringFrom(text, breakPoint))
         IN  [line1 |-> substring(text, 0, breakPoint),
              line2 |-> IF Len(rest) > maxChars
                        THEN substring(rest, 0, maxChars - 3) \o Ellipsis
                        ELSE rest,
              wrapped |-> TRUE,
              breakPoint |-> breakPoint,
              reads |-> (maxChars - 4)..maxChars]
    ELSE [line1 |-> text, line2 |-> Empty, wrapped |-> FALSE,
          breakPoint |-> maxChars, reads |-> {}]

\* The word wrap of lines 230-258 (artist) and 270-298 (title).
wordWrap(text, maxChars) ==
    IF Len(text) > maxChars
    THEN LET breakPoint == findBreak(text, maxChars, maxChars)
             rest  == trim(substringFrom(text, breakPoint))
         IN  [line1 |-> substring(text, 0, breakPoint),
              line2 |-> IF Len(rest) > maxChars
                        THEN substring(rest, 0, maxChars - 3) \o Ellipsis
                        ELSE rest,
              wrapped |-> TRUE,
              breakPoint |-> breakPoint,
              reads |-> charAtReads(text, maxChars, maxChars)]
    ELSE [line1 |-> text, line2 |-> Empty, wrapped |-> FALSE,
          breakPoint |-> maxChars, reads |-> {}]

\* The lines println prints for a wrapped text: two when it was split.
printed(w) == IF w.wrapped THEN <<w.line1, w.line2>> ELSE <<w.line1>>

\* Lines 223-226: the artist text to display.
displayArtistOf(a) ==
    IF a = UnknownArtist \/ a = Empty \/ a = FromPhone THEN NoArtistInfo ELSE a

\* Lines 263-266: the title text to display.
displayTitleOf(t) ==
    IF t = NoTrack \/ t = PlayingMusic THEN Loading ELSE t

\* Lines 228-258: the artist lines.
artistWrap(a) == wordWrap(displayArtistOf(a), maxCharsPerLine)

\* Lines 268-298: the title lines.
titleWrap(t) == wordWrap(displayTitleOf(t), maxCharsPerLine)

\* Lines 183-192: the connection line.
statusLine(isConn, device) ==
    IF isConn
    THEN IF Len(device) > 18 THEN substring(device, 0, 15) \o Ellipsis ELSE device
    ELSE WaitingForDevice

\* Lines 202-214: the width of the filled part of the volume bar.
fillWidthOf(vol) == (vol * (80 - 2)) \div 100

\* A plausible slip: artist and title are drawn whenever connected.
FrameAlwaysTrack(isConn, device, vol, playing, a, t) ==
    [status      |-> statusLine(isConn, device),
     vol         |-> vol,
     fillWidth   |-> fillWidthOf(vol),
     area        |-> IF isConn THEN "track" ELSE "pairing",
     info        |-> IF isConn THEN <<>> ELSE <<PairLine1, PairLine2>>,
     artistLines |-> IF isConn THEN printed(artistWrap(a)) ELSE <<>>,
     titleLines  |-> IF isConn THEN printed(titleWrap(t)) ELSE <<>>]

\* What updateDisplay draws from the state it reads.
Frame(isConn, device, vol, playing, a, t) ==
    [status      |-> statusLine(isConn, device),
     vol         |-> vol,
     fillWidth   |-> fillWidthOf(vol),
     area        |-> IF isConn THEN (IF playing THEN "track" ELSE "ready") ELSE "pairing",
     info        |-> IF isConn THEN (IF playing THEN <<>> ELSE <<ReadyLine1, ReadyLine2>>)
                     ELSE <<PairLine1, PairLine2>>,
     artistLines |-> IF isConn /\ playing THEN printed(artistWrap(a)) ELSE <<>>,
     titleLines  |-> IF isConn /\ playing THEN printed(titleWrap(t)) ELSE <<>>]

\* The frame setupDisplay leaves on the screen (lines 112-118).
BootFrame ==
    [status |-> BootLine1, vol |-> -1, fillWidth |-> 0, area |-> "boot",
     info |-> <<BootLine2>>, artistLines |-> <<>>, titleLines |-> <<>>]

(***************************************************************************)
(* Program constants.                                                      *)
(***************************************************************************)
InitialVolume == 50
VolumeStep == 5
MinVolume == 0
MaxVolume == 100
ButtonInterval == 50
DisplayInterval == 100

HIGH == TRUE
LOW == FALSE

CONNECTED == "CONNECTED"
DISCONNECTED == "DISCONNECTED"
CONNECTING == "CONNECTING"
DISCONNECTING == "DISCONNECTING"

ATTR_TITLE == "TITLE"
ATTR_ARTIST == "ARTIST"
ATTR_ALBUM == "ALBUM"

(***************************************************************************)
(* Bounds of the model.                                                    *)
(***************************************************************************)
\* SpecVolume: the volume encoder's positions are -MaxPos..MaxPos.
MaxPos == 11
\* SpecVolume: the most detents one poll can observe.
MaxDelta == 3
\* Spec: the volume encoder is at 0 or MainSwing.
MainSwing == 12
\* Spec: the track encoder's positions are 0..MaxTrackPos.
MaxTrackPos == 1
\* Elapsed times are kept up to TimeCap ms; every larger value behaves alike.
TimeCap == 101
\* SpecText: raw metadata texts are made of at most MaxTokens tokens.
MaxTokens == 3
\* SpecText: the long texts have up to MaxWrapLen characters.
MaxWrapLen == 46
\* SpecTrack: the track encoder is at 0, 1 or TrackSwing.
TrackSwing == 3

VARIABLES
    pc,                     \* the statement of loop() to execute next
    volume,                 \* int volume
    lastVolumeEncoderPos,   \* int lastVolumeEncoderPos
    lastTrackEncoderPos,    \* int lastTrackEncoderPos
    connectionState,        \* the transport's connection state (is_connected())
    connectedDevice,        \* String connectedDevice
    trackTitle,             \* String trackTitle
    artist,                 \* String artist
    isPlaying,              \* bool isPlaying
    displayNeedsUpdate,     \* bool displayNeedsUpdate (the dirty flag)
    lastVolumeButton,       \* static bool lastVolumeButton
    lastTrackButton,        \* static bool lastTrackButton
    isPaused,               \* static bool isPaused
    sinceButtonCheck,       \* currentTime - lastButtonCheck, up to TimeCap
    sinceDisplayUpdate,     \* currentTime - lastDisplayUpdate, up to TimeCap
    screen,                 \* the frame last drawn on the display
    issued,                 \* the transport commands issued by the latest step
    script,                 \* progress through the scenario (see ScriptNext)
    raw                     \* SpecText: the raw metadata text under test

vars == <<pc, volume, lastVolumeEncoderPos, lastTrackEncoderPos, connectionState,
          connectedDevice, trackTitle, artist, isPlaying, displayNeedsUpdate,
          lastVolumeButton, lastTrackButton, isPaused, sinceButtonCheck,
          sinceDisplayUpdate, screen, issued, script, raw>>

encoderVars == <<lastVolumeEncoderPos, lastTrackEncoderPos>>
buttonVars  == <<lastVolumeButton, lastTrackButton, isPaused>>
timeVars    == <<sinceButtonCheck, sinceDisplayUpdate>>
btVars      == <<connectionState, connectedDevice>>
trackVars   == <<trackTitle, artist>>

\* a2dp_sink.is_connected()
is_connected == connectionState = CONNECTED

Cmd(c, a) == [cmd |-> c, arg |-> a]

\* constrain(x, lo, hi)
constrain(x, lo, hi) == IF x < lo THEN lo ELSE IF x > hi THEN hi ELSE x

\* Elapsed time after dt more ms, kept up to TimeCap.
elapsed(t, dt) == IF t + dt > TimeCap THEN TimeCap ELSE t + dt

(***************************************************************************)
(* The state after setup() (lines 36-48, 63-78, 165-166, 370, 377, 393).   *)
(***************************************************************************)
Init ==
    /\ pc = "start"
    /\ volume = InitialVolume
    /\ lastVolumeEncoderPos = 0
    /\ lastTrackEncoderPos = 0
    /\ connectionState = DISCONNECTED
    /\ connectedDevice = NotConnected
    /\ trackTitle = NoTrack
    /\ artist = UnknownArtist
    /\ isPlaying = FALSE
    /\ displayNeedsUpdate = TRUE
    /\ lastVolumeButton = HIGH
    /\ lastTrackButton = HIGH
    /\ isPaused = FALSE
    /\ sinceButtonCheck = 0
    /\ sinceDisplayUpdate = 0
    /\ screen = BootFrame
    /\ issued = <<Cmd("set_volume", InitialVolume)>>
    /\ script = 0
    /\ raw = Empty

(***************************************************************************)
(* The polled input handlers.                                              *)
(***************************************************************************)
\* A plausible slip: the volume is not constrained.
handleVolumeEncoderNoClamp(newPos) ==
    IF newPos # lastVolumeEncoderPos
    THEN LET direction == newPos - lastVolumeEncoderPos
             v == volume - direction * VolumeStep
         IN  /\ volume' = v
             /\ issued' = <<Cmd("set_volume", v)>>
             /\ lastVolumeEncoderPos' = newPos
             /\ displayNeedsUpdate' = TRUE
    ELSE /\ issued' = <<>>
         /\ UNCHANGED <<volume, lastVolumeEncoderPos, displayNeedsUpdate>>

\* handleVolumeEncoder, with newPos the position getPosition() returns.
handleVolumeEncoder(newPos) ==
    IF newPos # lastVolumeEncoderPos
    THEN LET direction == newPos - lastVolumeEncoderPos
             v == constrain(volume - direction * VolumeStep, MinVolume, MaxVolume)
         IN  /\ volume' = v
             /\ issued' = <<Cmd("set_volume", v)>>
             /\ lastVolumeEncoderPos' = newPos
             /\ displayNeedsUpdate' = TRUE
    ELSE /\ issued' = <<>>
         /\ UNCHANGED <<volume, lastVolumeEncoderPos, displayNeedsUpdate>>

\* A plausible slip: the connection is not checked before the command.
handleTrackEncoderNoCheck(newPos) ==
    IF newPos # lastTrackEncoderPos
    THEN LET direction == newPos - lastTrackEncoderPos
         IN  /\ issued' = <<Cmd(IF direction > 0 THEN "next" ELSE "previous", 0)>>
             /\ displayNeedsUpdate' = TRUE
             /\ lastTrackEncoderPos' = newPos
    ELSE /\ issued' = <<>>
         /\ UNCHANGED <<lastTrackEncoderPos, displayNeedsUpdate>>

\* A plausible slip: the position is remembered only when connected.
handleTrackEncoderKeepsPos(newPos) ==
    IF newPos # lastTrackEncoderPos
    THEN LET direction == newPos - lastTrackEncoderPos
         IN  IF is_connected
             THEN /\ issued' = <<Cmd(IF direction > 0 THEN "next" ELSE "previous", 0)>>
                  /\ displayNeedsUpdate' = TRUE
                  /\ lastTrackEncoderPos' = newPos
             ELSE /\ issued' = <<>>
                  /\ UNCHANGED <<lastTrackEncoderPos, displayNeedsUpdate>>
    ELSE /\ issued' = <<>>
         /\ UNCHANGED <<lastTrackEncoderPos, displayNeedsUpdate>>

\* handleTrackEncoder, with newPos the position getPosition() returns.
handleTrackEncoder(newPos) ==
    IF newPos # lastTrackEncoderPos
    THEN LET direction == newPos - lastTrackEncoderPos
         IN  /\ IF is_connected
                THEN /\ issued' = <<Cmd(IF direction > 0 THEN "next" ELSE "previous", 0)>>
                     /\ displayNeedsUpdate' = TRUE
                ELSE /\ issued' = <<>>
                     /\ UNCHANGED displayNeedsUpdate
             /\ lastTrackEncoderPos' = newPos
    ELSE /\ issued' = <<>>
         /\ UNCHANGED <<lastTrackEncoderPos, displayNeedsUpdate>>

\* A plausible slip: the press always pauses; the flag is never flipped.
handleButtonsAlwaysPause(volumeButton, trackButton) ==
    LET volPress == volumeButton = LOW /\ lastVolumeButton = HIGH /\ is_connected
        trkPress == trackButton = LOW /\ lastTrackButton = HIGH /\ is_connected
    IN  /\ isPaused' = isPaused
        /\ lastVolumeButton' = volumeButton
        /\ isPlaying' = IF trkPress THEN FALSE ELSE isPlaying
        /\ lastTrackButton' = trackButton
        /\ displayNeedsUpdate' = IF volPress \/ trkPress THEN TRUE ELSE displayNeedsUpdate
        /\ issued' = (IF volPress THEN <<Cmd("pause", 0)>> ELSE <<>>)
                     \o (IF trkPress THEN <<Cmd("stop", 0)>> ELSE <<>>)

\* A plausible slip: the action fires on the level, not on the edge.
handleButtonsOnLevel(volumeButton, trackButton) ==
    LET volPress == volumeButton = LOW /\ is_connected
        trkPress == trackButton = LOW /\ is_connected
    IN  /\ isPaused' = IF volPress THEN ~isPaused ELSE isPaused
        /\ lastVolumeButton' = volumeButton
        /\ isPlaying' = IF trkPress THEN FALSE ELSE isPlaying
        /\ lastTrackButton' = trackButton
        /\ displayNeedsUpdate' = IF volPress \/ trkPress THEN TRUE ELSE displayNeedsUpdate
        /\ issued' = (IF volPress
                      THEN <<Cmd(IF isPaused THEN "play" ELSE "pause", 0)>>
                      ELSE <<>>)
                     \o (IF trkPress THEN <<Cmd("stop", 0)>> ELSE <<>>)

\* A plausible slip: a stop press also resets the play/paused flag.
handleButtonsStopResets(volumeButton, trackButton) ==
    LET volPress == volumeButton = LOW /\ lastVolumeButton = HIGH /\ is_connected
        trkPress == trackButton = LOW /\ lastTrackButton = HIGH /\ is_connected
    IN  /\ isPaused' = IF trkPress THEN FALSE
                       ELSE IF volPress THEN ~isPaused ELSE isPaused
        /\ lastVolumeButton' = volumeButton
        /\ isPlaying' = IF trkPress THEN FALSE ELSE isPlaying
        /\ lastTrackButton' = trackButton
        /\ displayNeedsUpdate' = IF volPress \/ trkPress THEN TRUE ELSE displayNeedsUpdate
        /\ issued' = (IF volPress
                      THEN <<Cmd(IF isPaused THEN "play" ELSE "pause", 0)>>
                      ELSE <<>>)
                     \o (IF trkPress THEN <<Cmd("stop", 0)>> ELSE <<>>)

\* handleButtons, with the two levels digitalRead() returns.
handleButtons(volumeButton, trackButton) ==
    LET volPress == volumeButton = LOW /\ lastVolumeButton = HIGH /\ is_connected
        trkPress == trackButton = LOW /\ lastTrackButton = HIGH /\ is_connected
    IN  /\ isPaused' = IF volPress THEN ~isPaused ELSE isPaused
        /\ lastVolumeButton' = volumeButton
        /\ isPlaying' = IF trkPress THEN FALSE ELSE isPlaying
        /\ lastTrackButton' = trackButton
        /\ displayNeedsUpdate' = IF volPress \/ trkPress THEN TRUE ELSE displayNeedsUpdate
        /\ issued' = (IF volPress
                      THEN <<Cmd(IF isPaused THEN "play" ELSE "pause", 0)>>
                      ELSE <<>>)
                     \o (IF trkPress THEN <<Cmd("stop", 0)>> ELSE <<>>)

\* updateDisplay: one full redraw from the state as it is now.
updateDisplay ==
    screen' = Frame(is_connected, connectedDevice, volume, isPlaying, artist, trackTitle)

(***************************************************************************)
(* The Bluetooth callbacks.                                                *)
(***************************************************************************)
\* A plausible slip: the disconnect branch forgets the track texts.
onBluetoothConnectedKeepsTrack(state) ==
    /\ connectionState' = state
    /\ IF state = CONNECTED
       THEN /\ connectedDevice' = PhoneConnected
            /\ isPlaying' = FALSE
            /\ UNCHANGED trackVars
       ELSE IF state = DISCONNECTED
       THEN /\ connectedDevice' = NotConnected
            /\ isPlaying' = FALSE
            /\ UNCHANGED trackVars
       ELSE UNCHANGED <<connectedDevice, isPlaying, trackVars>>
    /\ displayNeedsUpdate' = TRUE

\* onBluetoothConnected(state, ptr), called when the transport enters state.
onBluetoothConnected(state) ==
    /\ connectionState' = state
    /\ IF state = CONNECTED
       THEN /\ connectedDevice' = PhoneConnected
            /\ isPlaying' = FALSE
            /\ UNCHANGED trackVars
       ELSE IF state = DISCONNECTED
       THEN /\ connectedDevice' = NotConnected
            /\ isPlaying' = FALSE
            /\ trackTitle' = NoTrack
            /\ artist' = UnknownArtist
       ELSE UNCHANGED <<connectedDevice, isPlaying, trackVars>>
    /\ displayNeedsUpdate' = TRUE

\* A plausible slip: every audio buffer marks the display dirty.
read_data_streamAlwaysDirty ==
    /\ isPlaying' = TRUE
    /\ displayNeedsUpdate' = TRUE

\* read_data_stream(data, length)
read_data_stream ==
    IF ~isPlaying
    THEN /\ isPlaying' = TRUE
         /\ displayNeedsUpdate' = TRUE
    ELSE UNCHANGED <<isPlaying, displayNeedsUpdate>>

\* A plausible slip: the callback does not mark the display dirty.
avrc_metadata_callbackNoDirty(id, text) ==
    /\ trackTitle' = IF id = ATTR_TITLE THEN cleanTitle(text) ELSE trackTitle
    /\ artist' = IF id = ATTR_ARTIST THEN cleanArtist(text) ELSE artist
    /\ UNCHANGED displayNeedsUpdate

\* avrc_metadata_callback(id, text)
avrc_metadata_callback(id, text) ==
    /\ trackTitle' = IF id = ATTR_TITLE THEN cleanTitle(text) ELSE trackTitle
    /\ artist' = IF id = ATTR_ARTIST THEN cleanArtist(text) ELSE artist
    /\ displayNeedsUpdate' = TRUE

(***************************************************************************)
(* The scenario "connect, title ScenTitle, artist ScenArtist, redraw":     *)
(* script counts how many of its events have happened, in that order and   *)
(* with no other connection, metadata or knob event since the start; 4     *)
(* after the redraw that follows them; ScriptOff once the run has left the *)
(* scenario.  Audio data before that redraw does not leave the scenario.   *)
(***************************************************************************)
ScriptOff == 0 - 1

ScriptNext(s, event, text) ==
    IF s = 0 /\ event = CONNECTING THEN 0
    ELSE IF s = 0 /\ event = CONNECTED THEN 1
    ELSE IF s = 1 /\ event = ATTR_TITLE /\ text = ScenTitle THEN 2
    ELSE IF s = 2 /\ event = ATTR_ARTIST /\ text = ScenArtist THEN 3
    ELSE ScriptOff

(***************************************************************************)
(* loop(): one action per statement, in program order.  The callbacks run  *)
(* on the Bluetooth stack's task and may run between any two of them.      *)
(***************************************************************************)
\* Line 81: currentTime = millis(), dt ms after the previous reading.
loopStart(dt) ==
    /\ pc = "start"
    /\ sinceButtonCheck' = elapsed(sinceButtonCheck, dt)
    /\ sinceDisplayUpdate' = elapsed(sinceDisplayUpdate, dt)
    /\ pc' = "volume"
    /\ issued' = <<>>
    /\ script' = script
    /\ UNCHANGED <<volume, encoderVars, btVars, trackVars, isPlaying,
                   displayNeedsUpdate, buttonVars, screen, raw>>

\* Line 84.
loopVolume(newPos) ==
    /\ pc = "volume"
    /\ handleVolumeEncoder(newPos)
    /\ pc' = "track"
    /\ script' = IF newPos # lastVolumeEncoderPos THEN ScriptOff ELSE script
    /\ UNCHANGED <<lastTrackEncoderPos, btVars, trackVars, isPlaying, buttonVars,
                   timeVars, screen, raw>>

\* A plausible slip: the track poll falls through past the button poll.
loopTrackSkipsButtons(newPos) ==
    /\ pc = "track"
    /\ handleTrackEncoder(newPos)
    /\ pc' = "display"
    /\ script' = IF newPos # lastTrackEncoderPos THEN ScriptOff ELSE script
    /\ UNCHANGED <<volume, lastVolumeEncoderPos, btVars, trackVars, isPlaying,
                   buttonVars, timeVars, screen, raw>>

\* Line 85.
loopTrack(newPos) ==
    /\ pc = "track"
    /\ handleTrackEncoder(newPos)
    /\ pc' = "buttons"
    /\ script' = IF newPos # lastTrackEncoderPos THEN ScriptOff ELSE script
    /\ UNCHANGED <<volume, lastVolumeEncoderPos, btVars, trackVars, isPlaying,
                   buttonVars, timeVars, screen, raw>>

\* Lines 88-91, the interval has elapsed.
loopButtons(volumeButton, trackButton) ==
    /\ pc = "buttons"
    /\ sinceButtonCheck > ButtonInterval
    /\ handleButtons(volumeButton, trackButton)
    /\ sinceButtonCheck' = 0
    /\ pc' = "display"
    /\ script' = IF volumeButton = LOW \/ trackButton = LOW THEN ScriptOff ELSE script
    /\ UNCHANGED <<volume, encoderVars, btVars, trackVars, sinceDisplayUpdate,
                   screen, raw>>

\* Lines 88-91, the interval has not elapsed.
loopSkipButtons ==
    /\ pc = "buttons"
    /\ ~(sinceButtonCheck > ButtonInterval)
    /\ pc' = "display"
    /\ issued' = <<>>
    /\ script' = script
    /\ UNCHANGED <<volume, encoderVars, btVars, trackVars, isPlaying,
                   displayNeedsUpdate, buttonVars, timeVars, screen, raw>>

\* Lines 94-95: the redraw, when the display is dirty or the interval elapsed.
loopUpdateDisplay ==
    /\ pc = "display"
    /\ displayNeedsUpdate \/ sinceDisplayUpdate > DisplayInterval
    /\ updateDisplay
    /\ pc' = "clear"
    /\ issued' = <<>>
    /\ script' = IF script = 3 THEN 4 ELSE script
    /\ UNCHANGED <<volume, encoderVars, btVars, trackVars, isPlaying,
                   displayNeedsUpdate, buttonVars, timeVars, raw>>

\* A plausible slip: the refresh is skipped whatever the flag and the time.
loopSkipDisplayAnyway ==
    /\ pc = "display"
    /\ pc' = "start"
    /\ issued' = <<>>
    /\ script' = script
    /\ UNCHANGED <<volume, encoderVars, btVars, trackVars, isPlaying,
                   displayNeedsUpdate, buttonVars, timeVars, screen, raw>>

\* Lines 94, 100: no redraw in this iteration.
loopSkipDisplay ==
    /\ pc = "display"
    /\ ~(displayNeedsUpdate \/ sinceDisplayUpdate > DisplayInterval)
    /\ pc' = "start"
    /\ issued' = <<>>
    /\ script' = script
    /\ UNCHANGED <<volume, encoderVars, btVars, trackVars, isPlaying,
                   displayNeedsUpdate, buttonVars, timeVars, screen, raw>>

\* Lines 96-97, 100: after the redraw.
loopClear ==
    /\ pc = "clear"
    /\ sinceDisplayUpdate' = 0
    /\ displayNeedsUpdate' = FALSE
    /\ pc' = "start"
    /\ issued' = <<>>
    /\ script' = script
    /\ UNCHANGED <<volume, encoderVars, btVars, trackVars, isPlaying,
                   buttonVars, sinceButtonCheck, screen, raw>>

(***************************************************************************)
(* The transport: what the Bluetooth stack does to the program.            *)
(***************************************************************************)
\* The connection states the transport can enter from state s.
NextStates(s) ==
    CASE s = DISCONNECTED  -> {CONNECTING, CONNECTED}
      [] s = CONNECTING    -> {CONNECTED, DISCONNECTED}
      [] s = CONNECTED     -> {DISCONNECTING, DISCONNECTED}
      [] s = DISCONNECTING -> {DISCONNECTED}

\* The transport enters a new connection state and reports it.
btConnectionState(state) ==
    /\ state \in NextStates(connectionState)
    /\ onBluetoothConnected(state)
    /\ issued' = <<>>
    /\ script' = ScriptNext(script, state, Empty)
    /\ UNCHANGED <<pc, volume, encoderVars, buttonVars, timeVars, screen, raw>>

\* The transport hands over streamed audio.
btAudioData ==
    /\ is_connected
    /\ read_data_stream
    /\ issued' = <<>>
    /\ script' = IF script = 4 THEN ScriptOff ELSE script
    /\ UNCHANGED <<pc, volume, encoderVars, btVars, trackVars, buttonVars,
                   timeVars, screen, raw>>

\* The transport hands over one metadata attribute.
btMetadata(id, text) ==
    /\ is_connected
    /\ avrc_metadata_callback(id, text)
    /\ issued' = <<>>
    /\ script' = ScriptNext(script, id, text)
    /\ UNCHANGED <<pc, volume, encoderVars, btVars, isPlaying, buttonVars,
                   timeVars, screen, raw>>

(***************************************************************************)
(* The program under an environment E: the encoder positions, button       *)
(* levels, loop periods and metadata texts the environment may produce.    *)
(***************************************************************************)
StepStart(E) == \E dt \in E.dts : loopStart(dt)
StepVolume(E) ==
    \E p \in {q \in E.volPos : q - lastVolumeEncoderPos \in (0 - E.volDelta)..E.volDelta} :
        loopVolume(p)
StepTrack(E) == \E p \in E.trkPos : loopTrack(p)
StepButtons(E) == \E vb \in E.levels, tb \in E.levels : loopButtons(vb, tb)
StepConnection(E) == \E s \in E.states : btConnectionState(s)
StepMetadata(E) ==
    \/ \E t \in E.titles : btMetadata(ATTR_TITLE, t)
    \/ \E a \in E.artists : btMetadata(ATTR_ARTIST, a)
    \/ \E x \in E.others : btMetadata(ATTR_ALBUM, x)

Program(E) ==
    \/ StepStart(E)
    \/ StepVolume(E)
    \/ StepTrack(E)
    \/ StepButtons(E)
    \/ loopSkipButtons
    \/ loopUpdateDisplay
    \/ loopSkipDisplay
    \/ loopClear
    \/ StepConnection(E)
    \/ btAudioData
    \/ StepMetadata(E)

AllStates == {CONNECTED, DISCONNECTED, CONNECTING, DISCONNECTING}

\* The loop periods explored: the time from one millis() reading to the next.
LoopPeriods == {50, 60}

\* Spec: every kind of input, few values of each.
MainEnv ==
    [dts      |-> LoopPeriods,
     volPos   |-> {0, MainSwing},
     volDelta |-> MainSwing,
     trkPos   |-> 0..MaxTrackPos,
     levels   |-> {HIGH, LOW},
     states   |-> {CONNECTED, DISCONNECTED},
     titles   |-> {ScenTitle},
     artists  |-> {UnknownArtist},
     others   |-> {}]

Next == Program(MainEnv)

Spec == Init /\ [][Next]_vars

\* SpecCallbacks: the knobs at rest, every callback, several texts.
CallbackEnv ==
    [dts      |-> LoopPeriods,
     volPos   |-> {0},
     volDelta |-> 0,
     trkPos   |-> {0},
     levels   |-> {HIGH},
     states   |-> AllStates,
     titles   |-> {ScenTitle, P5, PlayingMusic},
     artists  |-> {ScenArtist, Empty},
     others   |-> {Song}]

NextCallbacks == Program(CallbackEnv)

SpecCallbacks == Init /\ [][NextCallbacks]_vars

\* SpecVolume: the volume knob turned by up to MaxDelta detents per poll,
\* between the positions -MaxPos and MaxPos.
VolumeEnv ==
    [dts      |-> LoopPeriods,
     volPos   |-> (0 - MaxPos)..MaxPos,
     volDelta |-> MaxDelta,
     trkPos   |-> {0},
     levels   |-> {HIGH},
     states   |-> {CONNECTED, DISCONNECTED},
     titles   |-> {NoTrack},
     artists  |-> {},
     others   |-> {}]

NextVolume == Program(VolumeEnv)

SpecVolume == Init /\ [][NextVolume]_vars

\* SpecButtons: the two buttons, connection and audio; the knobs at rest.
ButtonEnv ==
    [dts      |-> LoopPeriods,
     volPos   |-> {0},
     volDelta |-> 0,
     trkPos   |-> {0},
     levels   |-> {HIGH, LOW},
     states   |-> AllStates,
     titles   |-> {ScenTitle},
     artists  |-> {},
     others   |-> {}]

NextButtons == Program(ButtonEnv)

SpecButtons == Init /\ [][NextButtons]_vars

\* SpecTrack: the track knob turned by one or by several detents per poll.
TrackPositions == {0, 1, TrackSwing}

TrackEnv ==
    [dts      |-> LoopPeriods,
     volPos   |-> {0},
     volDelta |-> 0,
     trkPos   |-> TrackPositions,
     levels   |-> {HIGH},
     states   |-> {CONNECTED, DISCONNECTED},
     titles   |-> {NoTrack},
     artists  |-> {},
     others   |-> {}]

NextTrack == Program(TrackEnv)

SpecTrack == Init /\ [][NextTrack]_vars

(***************************************************************************)
(* SpecFair: the loop task is scheduled again and again (loop() is called  *)
(* forever by the Arduino core and each of its statements terminates);     *)
(* nothing is assumed of the callbacks.                                    *)
(***************************************************************************)
\* One statement of loop().
LoopStep(E) ==
    \/ StepStart(E)
    \/ StepVolume(E)
    \/ StepTrack(E)
    \/ StepButtons(E)
    \/ loopSkipButtons
    \/ loopUpdateDisplay
    \/ loopSkipDisplay
    \/ loopClear

\* SpecFair: the knobs and buttons at rest, connection, audio and a title.
FairEnv ==
    [dts      |-> LoopPeriods,
     volPos   |-> {0},
     volDelta |-> 0,
     trkPos   |-> {0},
     levels   |-> {HIGH},
     states   |-> {CONNECTED, DISCONNECTED},
     titles   |-> {ScenTitle},
     artists  |-> {},
     others   |-> {}]

NextFair == Program(FairEnv)

SpecFair == Init /\ [][NextFair]_vars /\ WF_vars(LoopStep(FairEnv))

(***************************************************************************)
(* SpecStartup: setup() from power-on.  setupDisplay either brings the     *)
(* display up or finds no display and spins in for (;;); setupEncoders and *)
(* setupBluetooth follow only when it returns.  The callbacks are          *)
(* registered and the transport started in setupBluetooth.                 *)
(***************************************************************************)
\* The screen before display.begin(): nothing drawn.
NoFrame ==
    [status |-> Empty, vol |-> 0 - 1, fillWidth |-> 0, area |-> "blank",
     info |-> <<>>, artistLines |-> <<>>, titleLines |-> <<>>]

\* Lines 36-48: the globals at power-on, before setup().
InitStartup ==
    /\ pc = "setupDisplay"
    /\ volume = InitialVolume
    /\ lastVolumeEncoderPos = 0
    /\ lastTrackEncoderPos = 0
    /\ connectionState = DISCONNECTED
    /\ connectedDevice = NotConnected
    /\ trackTitle = NoTrack
    /\ artist = UnknownArtist
    /\ isPlaying = FALSE
    /\ displayNeedsUpdate = TRUE
    /\ lastVolumeButton = HIGH
    /\ lastTrackButton = HIGH
    /\ isPaused = FALSE
    /\ sinceButtonCheck = 0
    /\ sinceDisplayUpdate = 0
    /\ screen = NoFrame
    /\ issued = <<>>
    /\ script = 0
    /\ raw = Empty

\* Lines 106-118: display.begin() succeeds and the boot text is drawn.
setupDisplayOk ==
    /\ pc = "setupDisplay"
    /\ screen' = BootFrame
    /\ pc' = "setupEncoders"
    /\ UNCHANGED <<volume, encoderVars, btVars, trackVars, isPlaying,
                   displayNeedsUpdate, buttonVars, timeVars, issued, script, raw>>

\* A plausible slip: setupDisplay returns after reporting the failure.
setupDisplayFailReturns ==
    /\ pc = "setupDisplay"
    /\ pc' = "setupEncoders"
    /\ UNCHANGED <<volume, encoderVars, btVars, trackVars, isPlaying,
                   displayNeedsUpdate, buttonVars, timeVars, screen, issued,
                   script, raw>>

\* Lines 106-109: display.begin() fails; for (;;) never ends.
setupDisplayFail ==
    /\ pc = "setupDisplay"
    /\ pc' = "halted"
    /\ UNCHANGED <<volume, encoderVars, btVars, trackVars, isPlaying,
                   displayNeedsUpdate, buttonVars, timeVars, screen, issued,
                   script, raw>>

\* Lines 149-169: the encoders start at position 0.
setupEncoders ==
    /\ pc = "setupEncoders"
    /\ lastVolumeEncoderPos' = 0
    /\ lastTrackEncoderPos' = 0
    /\ pc' = "setupBluetooth"
    /\ UNCHANGED <<volume, btVars, trackVars, isPlaying, displayNeedsUpdate,
                   buttonVars, timeVars, screen, issued, script, raw>>

\* Lines 123-147: callbacks registered, transport started, volume sent.
setupBluetooth ==
    /\ pc = "setupBluetooth"
    /\ issued' = <<Cmd("set_volume", volume)>>
    /\ pc' = "setupDone"
    /\ UNCHANGED <<volume, encoderVars, btVars, trackVars, isPlaying,
                   displayNeedsUpdate, buttonVars, timeVars, screen, script, raw>>

\* Lines 76-77: the end of setup(); loop() runs next.
setupDone ==
    /\ pc = "setupDone"
    /\ displayNeedsUpdate' = TRUE
    /\ pc' = "start"
    /\ issued' = <<>>
    /\ UNCHANGED <<volume, encoderVars, btVars, trackVars, isPlaying,
                   buttonVars, timeVars, screen, script, raw>>

\* The transport has been started (line 141) with the callbacks registered
\* (lines 135-137): true from the end of setupBluetooth on.
started == pc \notin {"setupDisplay", "setupEncoders", "setupBluetooth", "halted"}

\* SpecStartup: buttons and connection, the knobs at rest.
StartupEnv ==
    [dts      |-> LoopPeriods,
     volPos   |-> {0},
     volDelta |-> 0,
     trkPos   |-> {0},
     levels   |-> {HIGH, LOW},
     states   |-> {CONNECTED, DISCONNECTED},
     titles   |-> {NoTrack},
     artists  |-> {},
     others   |-> {}]

NextStartup ==
    \/ setupDisplayOk
    \/ setupDisplayFail
    \/ setupEncoders
    \/ setupBluetooth
    \/ setupDone
    \/ started /\ Program(StartupEnv)

SpecStartup == InitStartup /\ [][NextStartup]_vars

(***************************************************************************)
(* SpecText: the text functions on their own.  One raw metadata text is    *)
(* drawn at the start; the metadata callback stores it as title and as     *)
(* artist, and updateDisplay draws, in a connected and playing state.      *)
(***************************************************************************)
\* The pieces raw texts are made of.
Tokens == {TokA, Space, Dash, P5, P10, VEVO, Music, Topic}

\* Every concatenation of at most n tokens.
RECURSIVE TokenTexts(_)
TokenTexts(n) ==
    IF n = 0 THEN {Empty}
    ELSE LET shorter == TokenTexts(n - 1)
         IN  shorter \cup {s \o t : s \in shorter, t \in Tokens}

\* Texts named by the specification, and texts with several separators or
\* with a pattern that appears once another is removed.
ExampleTexts ==
    {ExTitle, ExArtist, ScenTitle, ScenArtist, NoTrack, PlayingMusic, FromPhone,
     UnknownArtist, ExWrap1, ExWrap2, ExTwoDash, ExLeadDash, ExLeadTwo, ExTailDash,
     ExJoinTitle, ExJoinArtist, ExJoinTopic, ExTwice, ExOrder, P1, P2, P3, P4, P6,
     P7, P8, P9, Records}

\* The text of length n made of "x", with a space at each index of spaces.
LongText(n, spaces) == [i \in 1..n |-> IF (i - 1) \in spaces THEN " " ELSE "x"]

\* Long texts: lengths around one line and around two lines (up to
\* MaxWrapLen), spaces in and around the window the word wrap scans.
WrapLengths == {0, 16, 20, 21, 22, 23, 25} \cup (MaxWrapLen - 3)..MaxWrapLen

WrapTexts ==
    {LongText(n, sp) : n \in WrapLengths, sp \in SUBSET {16, 18, 21, 22, 24}}

TextInputs == TokenTexts(MaxTokens) \cup ExampleTexts \cup WrapTexts

InitText ==
    /\ raw \in TextInputs
    /\ pc = "start"
    /\ volume = InitialVolume
    /\ lastVolumeEncoderPos = 0
    /\ lastTrackEncoderPos = 0
    /\ connectionState = CONNECTED
    /\ connectedDevice = PhoneConnected
    /\ trackTitle = NoTrack
    /\ artist = UnknownArtist
    /\ isPlaying = TRUE
    /\ displayNeedsUpdate = TRUE
    /\ lastVolumeButton = HIGH
    /\ lastTrackButton = HIGH
    /\ isPaused = FALSE
    /\ sinceButtonCheck = 0
    /\ sinceDisplayUpdate = 0
    /\ screen = BootFrame
    /\ issued = <<>>
    /\ script = 1

textTitle == btMetadata(ATTR_TITLE, raw)

textArtist == btMetadata(ATTR_ARTIST, raw)

textDraw ==
    /\ updateDisplay
    /\ UNCHANGED <<pc, volume, encoderVars, btVars, trackVars, isPlaying,
                   displayNeedsUpdate, buttonVars, timeVars, issued, script, raw>>

NextText == textTitle \/ textArtist \/ textDraw

SpecText == InitText /\ [][NextText]_vars

(***************************************************************************)
(* Properties.                                                             *)
(***************************************************************************)
\* The value the claims call clamp(x, 0, 100).
Clamp100(x) == IF x < 0 THEN 0 ELSE IF x > 100 THEN 100 ELSE x

\* A step of loop() that runs handleVolumeEncoder / handleTrackEncoder /
\* handleButtons / the redraw / the statements after the redraw.
VolumePoll == pc = "volume" /\ pc' = "track"
TrackPoll == pc = "track" /\ pc' = "buttons"
ButtonPoll == pc = "buttons" /\ pc' = "display" /\ sinceButtonCheck' = 0
AfterRedraw == pc = "clear" /\ pc' = "start"

\* C1: a volume-encoder poll that sees the position change by d leaves
\* volume = clamp(previous volume - 5*d, 0, 100) and issues exactly one
\* set_volume command carrying that value; volume is within 0..100 in every
\* state.
C1_VolumeClamped ==
    /\ [](volume \in 0..100)
    /\ [][VolumePoll /\ lastVolumeEncoderPos' # lastVolumeEncoderPos
          => /\ volume' = Clamp100(volume - 5 * (lastVolumeEncoderPos' - lastVolumeEncoderPos))
             /\ issued' = <<[cmd |-> "set_volume", arg |-> volume']>>]_vars

\* C1 witness: a poll has just clamped at 0 (eleven detents down from 50
\* would give -5) and sent set_volume(0).
C1_Witness ==
    /\ pc = "track"
    /\ lastVolumeEncoderPos = 11
    /\ volume = 0
    /\ issued = <<[cmd |-> "set_volume", arg |-> 0]>>

\* A step that changes the application state or sends a transport command.
Mutation ==
    \/ volume' # volume
    \/ isPlaying' # isPlaying
    \/ isPaused' # isPaused
    \/ trackTitle' # trackTitle
    \/ artist' # artist
    \/ connectedDevice' # connectedDevice
    \/ connectionState' # connectionState
    \/ issued' # <<>>

CurrentFrame ==
    Frame(is_connected, connectedDevice, volume, isPlaying, artist, trackTitle)

\* C3: whenever the dirty flag is clear, the frame on the display was drawn
\* from the state as it is now: no mutation is left without a redraw that
\* read it.
C3_NoLostWakeup == ~displayNeedsUpdate => screen = CurrentFrame

\* C4: the step in which the transport reports DISCONNECTED leaves the
\* track texts at their defaults, playing false, the device label at
\* "Not Connected" and the dirty flag set.
C4_DisconnectResets ==
    [][connectionState' = DISCONNECTED /\ connectionState # DISCONNECTED
       => /\ trackTitle' = NoTrack
          /\ artist' = UnknownArtist
          /\ isPlaying' = FALSE
          /\ connectedDevice' = NotConnected
          /\ displayNeedsUpdate']_vars

\* C4 witness: disconnected with everything reset while the display still
\* shows the track that was playing.
C4_Witness ==
    /\ connectionState = DISCONNECTED
    /\ screen.area = "track"
    /\ screen.titleLines = <<Title>>
    /\ screen.artistLines = <<Band>>
    /\ trackTitle = NoTrack
    /\ artist = UnknownArtist
    /\ ~isPlaying
    /\ displayNeedsUpdate

\* C5: a track-encoder poll or a button poll made while the transport is
\* not connected sends no command, changes none of playing, the play/paused
\* flag, the track texts, the volume and the dirty flag.
C5_IgnoredWhenDisconnected ==
    [][~is_connected /\ (TrackPoll \/ ButtonPoll)
       => /\ issued' = <<>>
          /\ UNCHANGED <<isPlaying, isPaused, trackTitle, artist, volume,
                         displayNeedsUpdate>>]_vars

\* C5 witness: not connected, both buttons were sampled LOW in the button
\* poll just made, the track encoder has been turned, nothing was sent and
\* the flag is still clear.
C5_Witness ==
    /\ ~is_connected
    /\ pc = "display"
    /\ sinceButtonCheck = 0
    /\ lastVolumeButton = LOW
    /\ lastTrackButton = LOW
    /\ lastTrackEncoderPos = 1
    /\ issued = <<>>
    /\ ~isPaused
    /\ ~displayNeedsUpdate

\* C6, as stated: once connect, title "Song A - Title (Lyrics)" and artist
\* "Band VEVO" have happened in that order from the initial state and a
\* redraw has followed, the display shows artist "Band" and title "Title".
C6_ScenarioAsStated ==
    script = 4 => screen.artistLines = <<Band>> /\ screen.titleLines = <<Title>>

\* C6, amended: the same, provided audio data has arrived after the connect
\* and before that redraw (playing is true); without audio data the redraw
\* shows the press-to-play instructions and no track text.
C6_ScenarioWithAudio ==
    script = 4 =>
        IF isPlaying
        THEN screen.artistLines = <<Band>> /\ screen.titleLines = <<Title>>
        ELSE /\ screen.info = <<ReadyLine1, ReadyLine2>>
             /\ screen.artistLines = <<>>
             /\ screen.titleLines = <<>>

\* C6 witness: the scenario with audio data has run to its redraw.
C6_Witness ==
    /\ script = 4
    /\ isPlaying
    /\ screen.artistLines = <<Band>>
    /\ screen.titleLines = <<Title>>

(***************************************************************************)
(* The text rules as the claims word them, written without the String      *)
(* operations above.                                                       *)
(***************************************************************************)
\* The n characters of s from 0-based index i on.
Piece(s, i, n) == SubSeq(s, i + 1, i + n)

\* The indices at which pattern p occurs in s.
Occurrences(s, p) == {i \in 0..(Len(s) - Len(p)) : Piece(s, i, Len(p)) = p}

Largest(S) == CHOOSE i \in S : \A j \in S : j <= i

\* s with every occurrence of p removed, reading left to right.
RECURSIVE Without(_, _)
Without(s, p) ==
    IF s = <<>> \/ p = <<>> THEN s
    ELSE IF Len(p) <= Len(s) /\ SubSeq(s, 1, Len(p)) = p
         THEN Without(SubSeq(s, Len(p) + 1, Len(s)), p)
         ELSE <<Head(s)>> \o Without(Tail(s), p)

RECURSIVE WithoutAll(_, _)
WithoutAll(s, ps) ==
    IF ps = <<>> THEN s ELSE WithoutAll(Without(s, Head(ps)), Tail(ps))

\* s from its first to its last character that is not whitespace.
Trimmed(s) ==
    LET solid == {i \in 1..Len(s) : ~isspace(s[i])}
    IN  IF solid = {} THEN <<>>
        ELSE SubSeq(s, CHOOSE i \in solid : \A j \in solid : i <= j, Largest(solid))

\* s from its first character that is not whitespace.
LeadTrimmed(s) ==
    LET solid == {i \in 1..Len(s) : ~isspace(s[i])}
    IN  IF solid = {} THEN <<>>
        ELSE SubSeq(s, CHOOSE i \in solid : \A j \in solid : i <= j, Len(s))

\* The title rule of C7: the part after the last " - " when the text holds
\* one anywhere and the last one is not its final three characters.
TitleAsClaimed(text) ==
    LET dashes == Occurrences(text, <<" ", "-", " ">>)
        part == IF dashes # {} /\ Largest(dashes) < Len(text) - 3
                THEN SubSeq(text, Largest(dashes) + 4, Len(text))
                ELSE text
    IN  Trimmed(WithoutAll(part, <<P1, P2, P3, P4, P5, P6, P7, P8, P9, P10>>))

\* C7: the stored title is the default or follows the title rule for the
\* raw text; "Artist - Song (Official Video)" is stored as "Song".
C7_TitleRule ==
    /\ trackTitle \in {NoTrack, TitleAsClaimed(raw)}
    /\ raw = ExTitle => trackTitle \in {NoTrack, Song}

\* C8: a redraw made while connected and playing with an empty title or one
\* of the placeholder titles shows "Loading..." as the title.
C8_PlaceholderTitle ==
    /\ screen = CurrentFrame
    /\ is_connected
    /\ isPlaying
    /\ trackTitle \in {Empty, NoTrack, PlayingMusic}
    => screen.titleLines = <<Loading>>

\* The artist rule of C9.
ArtistAsClaimed(text) == Trimmed(WithoutAll(text, <<VEVO, Records, Music, Topic>>))

\* C9: the stored artist is the default or the raw text without "VEVO",
\* "Records", "Music" and " - Topic", trimmed; a redraw shows
\* "No artist info" for an empty artist, "Unknown Artist" and "From Phone";
\* "SomeBand - Topic" is stored as "SomeBand".
C9_ArtistRule ==
    /\ artist \in {UnknownArtist, ArtistAsClaimed(raw)}
    /\ artist \in {Empty, UnknownArtist, FromPhone}
         => CurrentFrame.artistLines = <<NoArtistInfo>>
    /\ raw = ExArtist => artist \in {UnknownArtist, SomeBand}
    /\ raw = Empty => CurrentFrame.artistLines = <<NoArtistInfo>>

\* C9 witness: "SomeBand - Topic" has been stored and drawn as "SomeBand".
C9_Witness ==
    /\ raw = ExArtist
    /\ artist = SomeBand
    /\ screen.artistLines = <<SomeBand>>

\* The wrap rule of C10: the lines printed for text.
WrapAsClaimed(text) ==
    IF Len(text) <= 21 THEN <<text>>
    ELSE LET spaces == {i \in 16..21 : text[i + 1] = " "}
             break == IF spaces = {} THEN 21 ELSE Largest(spaces)
             rest == LeadTrimmed(SubSeq(text, break + 1, Len(text)))
         IN  <<SubSeq(text, 1, break),
               IF Len(rest) > 21 THEN SubSeq(rest, 1, 18) \o <<".", ".", ".">> ELSE rest>>

\* C10: the artist lines and the title lines a redraw prints follow the
\* wrap rule, no line is longer than 21 characters, and the scan reads no
\* index outside the text.
C10_WordWrap ==
    LET a == displayArtistOf(artist)
        t == displayTitleOf(trackTitle)
        f == CurrentFrame
    IN  /\ f.artistLines = WrapAsClaimed(a)
        /\ f.titleLines = WrapAsClaimed(t)
        /\ \A k \in 1..Len(f.artistLines) : Len(f.artistLines[k]) <= 21
        /\ \A k \in 1..Len(f.titleLines) : Len(f.titleLines[k]) <= 21
        /\ artistWrap(artist).reads \subseteq 0..(Len(a) - 1)
        /\ titleWrap(trackTitle).reads \subseteq 0..(Len(t) - 1)

\* C10 witness: a title was broken at the space at index 16, the only one
\* in the window, and its second line was cut to 18 characters plus "...".
C10_Witness ==
    /\ screen = CurrentFrame
    /\ Len(screen.titleLines) = 2
    /\ Len(screen.titleLines[1]) = 16
    /\ Len(screen.titleLines[2]) = 21
    /\ SubSeq(screen.titleLines[2], 19, 21) = Ellipsis
    /\ trackTitle[17] = " "

\* C11: sanitizing is idempotent: the stored title, fed back through the
\* title clean-up, comes back unchanged, and the stored artist, fed back
\* through the artist clean-up, comes back unchanged.
C11_Idempotent ==
    /\ cleanTitle(trackTitle) = trackTitle
    /\ cleanArtist(artist) = artist

\* The successions of statements of loop(): from each to the next, the
\* redraw either taken or not.
LoopOrder ==
    {<<"start", "volume">>, <<"volume", "track">>, <<"track", "buttons">>,
     <<"buttons", "display">>, <<"display", "clear">>, <<"display", "start">>,
     <<"clear", "start">>}

\* The step of one iteration that draws.
RedrawStep == pc = "display" /\ pc' = "clear"

\* C12: the statements of an iteration follow one another in the order
\* volume poll, track poll, button poll (when more than 50 ms have passed
\* since the last one), refresh (when due), and the next iteration starts
\* only after that; the polled state changes only in its own poll; the
\* screen changes only in the refresh step, which draws the state as it is
\* at that step, so with every polled change made earlier in the iteration.
C12_LoopOrder ==
    [][/\ pc' # pc => <<pc, pc'>> \in LoopOrder
       /\ <<volume, lastVolumeEncoderPos>>' # <<volume, lastVolumeEncoderPos>>
             => VolumePoll
       /\ lastTrackEncoderPos' # lastTrackEncoderPos => TrackPoll
       /\ buttonVars' # buttonVars => ButtonPoll /\ sinceButtonCheck > ButtonInterval
       /\ pc = "buttons" /\ pc' # pc
             => (sinceButtonCheck' = 0 <=> sinceButtonCheck > ButtonInterval)
       /\ screen' # screen
             => RedrawStep /\ (displayNeedsUpdate \/ sinceDisplayUpdate > DisplayInterval)
       /\ RedrawStep
             => /\ screen' = Frame(is_connected, connectedDevice, volume, isPlaying,
                                   artist, trackTitle)
                /\ screen'.vol = volume]_vars

\* C12's case: an iteration whose button poll ran has drawn the volume that
\* an encoder poll set.
C12_Witness ==
    /\ pc = "clear"
    /\ sinceButtonCheck = 0
    /\ volume # InitialVolume
    /\ lastVolumeEncoderPos = MainSwing
    /\ screen.vol = volume
    /\ screen = CurrentFrame

\* Nothing of setupEncoders, setupBluetooth, the callbacks or loop() has
\* happened: every variable has its power-on value and no command was issued.
Pristine ==
    /\ issued = <<>>
    /\ screen = NoFrame
    /\ connectionState = DISCONNECTED
    /\ connectedDevice = NotConnected
    /\ volume = InitialVolume
    /\ trackTitle = NoTrack
    /\ artist = UnknownArtist
    /\ ~isPlaying
    /\ ~isPaused
    /\ lastVolumeButton = HIGH
    /\ lastTrackButton = HIGH
    /\ sinceButtonCheck = 0
    /\ sinceDisplayUpdate = 0

\* C13: when the display fails to initialise in setupDisplay, execution
\* halts there for good: the halted state is the power-on state (no encoder
\* or Bluetooth setup, no callback, no command, no loop iteration) and no
\* step ever leaves or changes it.
C13_StartupHalt ==
    /\ [](pc = "halted" => Pristine)
    /\ [][pc # "halted"]_vars
    /\ [][pc = "setupDisplay" /\ screen' # BootFrame => pc' = "halted"]_vars

\* C13's case: the display was not found.
C13_Witness == pc = "halted" /\ screen = NoFrame

\* C14: with the loop scheduled fairly, redraws happen again and again, so
\* every change that sets the flag is followed by a redraw that starts after
\* it; an iteration that finds the flag set at its refresh step, or more
\* than 100 ms gone since the last draw, draws the current state in that
\* iteration.
C14_EventualRedraw ==
    /\ []<><<RedrawStep>>_vars
    /\ displayNeedsUpdate ~> ~displayNeedsUpdate
    /\ [][pc = "display" /\ pc' # pc
             /\ (displayNeedsUpdate \/ sinceDisplayUpdate > DisplayInterval)
          => /\ RedrawStep
             /\ screen' = Frame(is_connected, connectedDevice, volume, isPlaying,
                                artist, trackTitle)]_vars

\* C14's case: a redraw made for the 100 ms interval alone, the flag being
\* clear, of a state that callbacks had changed since power-on.
C14_Witness ==
    /\ pc = "clear"
    /\ ~displayNeedsUpdate
    /\ sinceDisplayUpdate > DisplayInterval
    /\ is_connected
    /\ isPlaying
    /\ screen = CurrentFrame

\* The transport reports that the connection is established, or lost.
ConnectEvent == connectionState # CONNECTED /\ connectionState' = CONNECTED
DisconnectEvent == connectionState # DISCONNECTED /\ connectionState' = DISCONNECTED

\* A button poll that samples the track button LOW after HIGH, connected.
StopPress ==
    ButtonPoll /\ lastTrackButton = HIGH /\ lastTrackButton' = LOW /\ is_connected

\* A button poll that samples the volume button LOW after HIGH, connected.
PlayPausePress ==
    ButtonPoll /\ lastVolumeButton = HIGH /\ lastVolumeButton' = LOW /\ is_connected

\* C15: playing is false at start-up and after a connect event, a
\* disconnect event or a stop press made while connected; it becomes true
\* by an audio-data callback and by nothing else, and then stays true until
\* the next such event.  The audio-data callback that finds playing false
\* sets it and marks the display dirty; one that finds it true changes
\* neither playing nor the dirty flag.
C15_PlayingFollowsAudio ==
    /\ [](pc = "start" /\ screen = BootFrame /\ connectionState = DISCONNECTED
             => ~isPlaying)
    /\ [][/\ ConnectEvent \/ DisconnectEvent \/ StopPress => ~isPlaying'
          /\ isPlaying /\ ~isPlaying'
                => ConnectEvent \/ DisconnectEvent \/ StopPress
          /\ ~isPlaying /\ isPlaying' => btAudioData
          /\ btAudioData /\ ~isPlaying => isPlaying' /\ displayNeedsUpdate'
          /\ btAudioData /\ isPlaying
                => isPlaying' /\ displayNeedsUpdate' = displayNeedsUpdate]_vars

\* C15's case: the last frame was drawn connected and not playing, the track
\* button is still held LOW, and audio data has since set playing and the
\* dirty flag.
C15_Witness ==
    /\ isPlaying
    /\ is_connected
    /\ displayNeedsUpdate
    /\ lastTrackButton = LOW
    /\ screen.area = "ready"

\* The commands named by names that the step has issued, in order.
IssuedOf(cmds, names) == SelectSeq(cmds, LAMBDA c : c.cmd \in names)

\* C16: a press of the volume-knob button detected while connected flips
\* the play/paused flag, marks the display dirty and issues exactly one
\* command, "pause" when the flag was not-paused and "play" when it was
\* paused.  The flag starts not-paused and changes in no other step, and no
\* other step issues "play" or "pause", so successive presses issue pause,
\* play, pause, ...
C16_PlayPauseAlternates ==
    /\ [](pc = "start" /\ screen = BootFrame => ~isPaused)
    /\ [][/\ PlayPausePress
             => /\ isPaused' = ~isPaused
                /\ displayNeedsUpdate'
                /\ IssuedOf(issued', {"play", "pause"})
                      = <<[cmd |-> IF isPaused THEN "play" ELSE "pause", arg |-> 0]>>
          /\ ~PlayPausePress
             => /\ isPaused' = isPaused
                /\ IssuedOf(issued', {"play", "pause"}) = <<>>]_vars

\* C16's case: the second connected press has just issued "play".
C16_Witness ==
    /\ issued = <<[cmd |-> "play", arg |-> 0]>>
    /\ ~isPaused
    /\ lastVolumeButton = LOW
    /\ is_connected

\* C17: in a button poll that samples the levels vb and tb, the play/pause
\* command is issued exactly when vb is LOW, the level remembered from the
\* previous poll is HIGH and the device is connected, and likewise "stop"
\* for tb; the remembered levels become vb and tb in every poll, connected
\* or not.  Both remembered levels start HIGH.  Hence a button held LOW over
\* consecutive polls acts at most once, and a press first sampled while
\* disconnected issues nothing at a later poll in which it is still held.
C17_EdgeTriggered ==
    /\ [](pc = "start" /\ screen = BootFrame
             => lastVolumeButton = HIGH /\ lastTrackButton = HIGH)
    /\ [][\A vb \in {HIGH, LOW}, tb \in {HIGH, LOW} :
             loopButtons(vb, tb)
             => /\ lastVolumeButton' = vb
                /\ lastTrackButton' = tb
                /\ IssuedOf(issued', {"play", "pause"}) # <<>>
                      <=> (vb = LOW /\ lastVolumeButton = HIGH /\ is_connected)
                /\ IssuedOf(issued', {"stop"}) # <<>>
                      <=> (tb = LOW /\ lastTrackButton = HIGH /\ is_connected)
                /\ Len(issued') <= 2]_vars
    /\ [][<<lastVolumeButton, lastTrackButton>>' # <<lastVolumeButton, lastTrackButton>>
             => ButtonPoll]_vars

\* C17's case: the poll just made, connected, sampled both buttons LOW and
\* issued "stop" alone: the volume button was already LOW at the previous
\* poll, so it did not act again; the flag has never been flipped, so that
\* press was first sampled while disconnected.
C17_Witness ==
    /\ pc = "display"
    /\ issued = <<[cmd |-> "stop", arg |-> 0]>>
    /\ is_connected
    /\ lastVolumeButton = LOW
    /\ lastTrackButton = LOW
    /\ ~isPaused

\* C18: a track-encoder poll that finds the position changed issues, when
\* connected, exactly one command whatever the size of the change ("next"
\* for an increase, "previous" for a decrease) and marks the display dirty,
\* and issues nothing when not connected; connected or not it remembers the
\* new position, and a poll that finds the position unchanged issues
\* nothing, so rotation made while disconnected gives no command later.
C18_TrackEncoder ==
    /\ [][\A p \in TrackPositions :
             loopTrack(p)
             => /\ lastTrackEncoderPos' = p
                /\ issued' =
                      IF p # lastTrackEncoderPos /\ is_connected
                      THEN <<[cmd |-> IF p > lastTrackEncoderPos THEN "next"
                                      ELSE "previous",
                              arg |-> 0]>>
                      ELSE <<>>
                /\ p # lastTrackEncoderPos /\ is_connected => displayNeedsUpdate']_vars
    /\ [][IssuedOf(issued', {"next", "previous"}) # <<>>
             => TrackPoll /\ is_connected /\ lastTrackEncoderPos' # lastTrackEncoderPos]_vars

\* C18's case: a connected poll has just answered a turn of more than one
\* detent (to TrackSwing from 0 or 1) with a single "next".
C18_Witness ==
    /\ pc = "buttons"
    /\ issued = <<[cmd |-> "next", arg |-> 0]>>
    /\ lastTrackEncoderPos = TrackSwing
    /\ is_connected
    /\ displayNeedsUpdate

\* C19: every redraw chooses the content area from (connected, playing) as
\* they are at the draw: the pairing instructions when not connected, the
\* press-to-play instructions when connected and not playing, the artist
\* lines and the title lines when connected and playing.  No frame shows an
\* artist or title line unless it was drawn connected and playing, and the
\* redraw changes none of volume, playing, title, artist and device label.
C19_ContentArea ==
    /\ [](screen.area # "track"
             => screen.artistLines = <<>> /\ screen.titleLines = <<>>)
    /\ [][RedrawStep
          => /\ ~is_connected
                => /\ screen'.area = "pairing"
                   /\ screen'.info = <<PairLine1, PairLine2>>
                   /\ screen'.artistLines = <<>> /\ screen'.titleLines = <<>>
             /\ is_connected /\ ~isPlaying
                => /\ screen'.area = "ready"
                   /\ screen'.info = <<ReadyLine1, ReadyLine2>>
                   /\ screen'.artistLines = <<>> /\ screen'.titleLines = <<>>
             /\ is_connected /\ isPlaying
                => /\ screen'.area = "track"
                   /\ screen'.info = <<>>
                   /\ screen'.artistLines = printed(artistWrap(artist))
                   /\ screen'.titleLines = printed(titleWrap(trackTitle))
                   /\ Len(screen'.artistLines) \in 1..2
                   /\ Len(screen'.titleLines) \in 1..2
             /\ UNCHANGED <<volume, isPlaying, trackTitle, artist, connectedDevice,
                            connectionState>>]_vars

\* C19's case: a frame just drawn while connected and not playing shows the
\* press-to-play text although a title and an artist are stored.
C19_Witness ==
    /\ pc = "clear"
    /\ is_connected
    /\ ~isPlaying
    /\ trackTitle = Title
    /\ artist = Band
    /\ screen = CurrentFrame
    /\ screen.area = "ready"
    /\ screen.info = <<ReadyLine1, ReadyLine2>>

\* The metadata callback stores a title or an artist.
MetadataEvent == trackVars' # trackVars /\ ~DisconnectEvent

\* C20: the play/paused flag changes only in a button poll that samples the
\* volume button LOW after HIGH while connected; connect, disconnect, stop
\* press, audio data and metadata leave it as it is, and a volume-button
\* press does not change playing, which falls only by a connect, a
\* disconnect or a connected stop press.  So a press made with the flag
\* set issues "play" even in a new connection, and playing stays true after
\* a pause.
C20_PausedFlagFrame ==
    [][/\ isPaused' # isPaused => PlayPausePress
       /\ (ConnectEvent \/ DisconnectEvent \/ btAudioData \/ MetadataEvent
              \/ (StopPress /\ ~PlayPausePress))
             => isPaused' = isPaused
       /\ PlayPausePress /\ ~StopPress => isPlaying' = isPlaying
       /\ isPlaying /\ ~isPlaying' => ConnectEvent \/ DisconnectEvent \/ StopPress
       /\ PlayPausePress /\ isPaused
             => IssuedOf(issued', {"play", "pause"}) = <<[cmd |-> "play", arg |-> 0]>>]_vars

\* C20's case: the poll just made issued "play" while the frame drawn last,
\* after the press that paused, shows the pairing text: the device was
\* disconnected and connected again in between and the flag was kept.
C20_Witness ==
    /\ pc = "display"
    /\ issued = <<[cmd |-> "play", arg |-> 0]>>
    /\ is_connected
    /\ ~isPaused
    /\ screen.area = "pairing"

\* C20's other case: paused by the button and still playing.
C20_PausedYetPlaying ==
    /\ issued = <<[cmd |-> "pause", arg |-> 0]>>
    /\ isPaused
    /\ isPlaying
    /\ is_connected

=============================================================================
